---- MODULE Spec2Model ----
(***************************************************************************)
(* Model of the market-data fetch core of wfmarket (src/market/views.py):  *)
(* the RateLimiter shared by the pool workers, the fetch_market_data       *)
(* request handler (start / progress), the background run                  *)
(* fetch_market_data_background with its two publish helpers, and the      *)
(* time-expiring cache that holds one progress record per session.         *)
(*                                                                         *)
(* The specifications share the variables:                                 *)
(*   SpecRL    the RateLimiter with concurrent workers and a clock;        *)
(*   Spec      one start request, the run it begins, and the store         *)
(*             dropping the session's record;                              *)
(*   FairSpec  Spec with the background thread scheduled fairly;           *)
(*   FairSpecRL the RateLimiter with a clock that never stops and a lock   *)
(*             granted fairly;                                             *)
(*   SpecPure  is_item_affordable, clean_item_name and fetch_item_orders   *)
(*             applied to inputs drawn from bounded sets;                  *)
(*   SpecBal   Spec without the store's expiry, with the source-balance    *)
(*             views (sources/views.py) interleaved with the run;          *)
(*   SpecPool  the run with the pool workers of each pass's executor;      *)
(*   SpecOrders the run against order lists that mix kept and dropped      *)
(*             orders;                                                     *)
(*   SpecMany  a run over a table of up to MaxTotal items.                 *)
(* A progress poll changes nothing, so it is the operator                  *)
(* progress_response of the cache, not an action.                          *)
(***************************************************************************)
EXTENDS Integers, Sequences, FiniteSets, TLC

(***************************************************************************)
(* Bounds.  The code's numeric parameters are scaled down so that the      *)
(* cases they govern occur in a small state space; each scaled parameter   *)
(* says which source line sets it.                                         *)
(***************************************************************************)
\* RateLimiter(max_requests=10, ...) at views.py:261, scaled.
max_requests == 2
\* RateLimiter(..., time_window=1.0) at views.py:261, in clock ticks.
time_window == 2
\* ThreadPoolExecutor(max_workers=10) at views.py:306, scaled; the limiter's
\* callers are the workers of a pool.
max_workers == 2
\* ThreadPoolExecutor(max_workers=10) at views.py:377, scaled alike.
retry_max_workers == 2
\* Last clock tick named; SpecRL stops there, FairSpecRL goes on with
\* times kept relative to a moving origin (TickPast).
MaxTime == 5
\* Largest number of rows of the Item table.
MaxItems == 2
\* Largest number of orders in an upstream payload drawn from OrderPool.
MaxOrders == 1
\* Longest source name given to is_item_affordable on its own.
MaxSourceLen == 2
\* Longest item name given to clean_item_name.
MaxNameLen == 4
\* Rows of the Item table of a long run.
MaxTotal == 50
\* "if batch_count >= 10" at views.py:359, scaled.
batch_size == 2
\* max_retry_attempts = 10 at views.py:367, scaled.
max_retry_attempts == 2

VARIABLES
  \* ---- RateLimiter (views.py:50-75) and its callers ----
  clock,          \* time.time(), in ticks
  requests,       \* RateLimiter.requests: deque of timestamps
  lock,           \* RateLimiter.lock: the worker holding it, or 0
  worker,         \* per pool worker: [pc, now, wake]
  recorded,       \* every timestamp ever appended to requests, in order
  \* ---- fetch_market_data / fetch_market_data_background ----
  item_table,     \* Item.objects.all(): rows of the Item table
  sessions,       \* session ids handed out by start
  threads,        \* session id -> number of background threads started
  cache,          \* django cache: key -> value, for the keys present
  response,       \* the JsonResponse of the last start request
  pc,             \* position of the background thread
  sid,            \* session_id argument of the background thread
  items,          \* items argument of the background thread
  source_balances,\* balances read at the start of the run
  market_data,
  failed_items,
  retry_queue,
  next_retry_queue,
  processed_items,
  successful_items,
  batch_count,
  retry_attempt,
  pending,        \* futures not yet yielded by as_completed
  folded,         \* per item index: how its fetches were folded, in order
  last_written,   \* counters of the record last written for the session
  statuses_written, \* every status written to the session's record so far
  \* ---- the SourceBalance table (sources/models.py) ----
  source_table,   \* SourceBalance.objects: source -> balance
  \* ---- one call of a pure function ----
  fn_input,       \* the function called and its arguments
  fn_output,      \* what the call returned or raised
  \* ---- the ThreadPoolExecutor of a pass ----
  started,        \* futures a pool worker has taken up: <<pass, index>>
  running         \* futures whose fetch_item_orders is being run

rlVars == <<clock, requests, lock, worker, recorded>>
runVars == <<pc, sid, items, source_balances, market_data, failed_items,
             retry_queue, next_retry_queue, processed_items,
             successful_items, batch_count, retry_attempt, pending, folded>>
webVars == <<item_table, sessions, threads, cache, response>>
ghostVars == <<last_written, statuses_written>>
poolVars == <<started, running>>
otherVars == <<source_table, fn_input, fn_output, poolVars>>
vars == <<rlVars, webVars, runVars, ghostVars, otherVars>>

(***************************************************************************)
(* RateLimiter                                                             *)
(***************************************************************************)
Workers == 1..max_workers
NoWorker == 0

\* "while self.requests and self.requests[0] <= now - self.time_window:
\*      self.requests.popleft()"
RECURSIVE evict(_, _)
evict(q, now) ==
  IF q # <<>> /\ Head(q) <= now - time_window
  THEN evict(Tail(q), now)
  ELSE q

\* A sleep that is one tick too short.
sleep_time_short(now, oldest) == time_window - (now - oldest) - 1

\* "sleep_time = self.time_window - (now - self.requests[0])"
sleep_time(now, oldest) == time_window - (now - oldest)

\* "if len(self.requests) >= self.max_requests:" ... "if sleep_time > 0:"
must_sleep(q, now) ==
  /\ Len(q) >= max_requests
  /\ sleep_time(now, q[1]) > 0

IdleWorker == [pc |-> "idle", now |-> 0, wake |-> 0]

\* A worker's fetch_item_orders reaches rate_limiter.wait_if_needed() and
\* blocks on "with self.lock".
CallWaitIfNeeded(w) ==
  /\ worker[w].pc = "idle"
  /\ worker' = [worker EXCEPT ![w].pc = "blocked"]
  /\ UNCHANGED <<clock, requests, lock, recorded>>
  /\ UNCHANGED <<webVars, runVars, ghostVars, otherVars>>

\* A worker that enters without waiting for the lock to be free.
AcquireAndEvict_unguarded(w) ==
  /\ worker[w].pc = "blocked"
  /\ lock' = w
  /\ requests' = evict(requests, clock)
  /\ worker' = [worker EXCEPT ![w].pc = "locked", ![w].now = clock]
  /\ UNCHANGED <<clock, recorded>>
  /\ UNCHANGED <<webVars, runVars, ghostVars, otherVars>>

\* The lock is granted; "now = time.time()" and the first eviction loop.
AcquireAndEvict(w) ==
  /\ worker[w].pc = "blocked"
  /\ lock = NoWorker
  /\ lock' = w
  /\ requests' = evict(requests, clock)
  /\ worker' = [worker EXCEPT ![w].pc = "locked", ![w].now = clock]
  /\ UNCHANGED <<clock, recorded>>
  /\ UNCHANGED <<webVars, runVars, ghostVars, otherVars>>

\* The window is full: the worker sleeps for sleep_time, still holding the
\* lock.
StartSleep(w) ==
  /\ worker[w].pc = "locked"
  /\ must_sleep(requests, worker[w].now)
  /\ worker' = [worker EXCEPT
                  ![w].pc = "sleeping",
                  ![w].wake = worker[w].now
                              + sleep_time(worker[w].now, requests[1])]
  /\ UNCHANGED <<clock, requests, lock, recorded>>
  /\ UNCHANGED <<webVars, runVars, ghostVars, otherVars>>

\* No wait is needed (or sleep_time <= 0): append now, release the lock.
AppendNoWait(w) ==
  /\ worker[w].pc = "locked"
  /\ ~must_sleep(requests, worker[w].now)
  /\ requests' = Append(requests, worker[w].now)
  /\ recorded' = Append(recorded, worker[w].now)
  /\ lock' = NoWorker
  /\ worker' = [worker EXCEPT ![w] = IdleWorker]
  /\ UNCHANGED clock
  /\ UNCHANGED <<webVars, runVars, ghostVars, otherVars>>

\* A sleeper that appends its timestamp and keeps the lock.
WakeAndAppend_keeps_lock(w) ==
  /\ worker[w].pc = "sleeping"
  /\ clock >= worker[w].wake
  /\ requests' = Append(evict(requests, clock), clock)
  /\ recorded' = Append(recorded, clock)
  /\ lock' = lock
  /\ worker' = [worker EXCEPT ![w] = IdleWorker]
  /\ UNCHANGED clock
  /\ UNCHANGED <<webVars, runVars, ghostVars, otherVars>>

\* time.sleep returns no earlier than asked; "now = time.time()", the
\* second eviction loop, the append, and the release of the lock.
WakeAndAppend(w) ==
  /\ worker[w].pc = "sleeping"
  /\ clock >= worker[w].wake
  /\ requests' = Append(evict(requests, clock), clock)
  /\ recorded' = Append(recorded, clock)
  /\ lock' = NoWorker
  /\ worker' = [worker EXCEPT ![w] = IdleWorker]
  /\ UNCHANGED clock
  /\ UNCHANGED <<webVars, runVars, ghostVars, otherVars>>

\* The clock advances.
Tick ==
  /\ clock < MaxTime
  /\ clock' = clock + 1
  /\ UNCHANGED <<requests, lock, worker, recorded>>
  /\ UNCHANGED <<webVars, runVars, ghostVars, otherVars>>

\* A time moved back by one tick, and kept at 0 when it was 0.
moved_back(t) == IF t > 0 THEN t - 1 ELSE 0

\* The clock advances past the last tick the model names.  Times are kept
\* relative to a moving origin: every time held is moved back by one tick
\* and the clock stays at MaxTime.  A time held at 0 stands for any time at
\* least MaxTime ago, which is at least a window ago (MaxTime >=
\* time_window), and the code tells such times apart in nothing: they are
\* evicted by the next caller, and a sleep computed from them has ended.
TickPast ==
  /\ clock = MaxTime
  /\ clock' = clock
  /\ requests' = [k \in DOMAIN requests |-> moved_back(requests[k])]
  /\ worker' = [w \in Workers |->
                  [pc |-> worker[w].pc,
                   now |-> moved_back(worker[w].now),
                   wake |-> moved_back(worker[w].wake)]]
  /\ recorded' = LET kept == SelectSeq(recorded, LAMBDA t : t > 0)
                 IN  [k \in DOMAIN kept |-> kept[k] - 1]
  /\ UNCHANGED lock
  /\ UNCHANGED <<webVars, runVars, ghostVars, otherVars>>

InitRL ==
  /\ clock = 0
  /\ requests = <<>>
  /\ lock = NoWorker
  /\ worker = [w \in Workers |-> IdleWorker]
  /\ recorded = <<>>


(***************************************************************************)
(* Python values                                                           *)
(***************************************************************************)
\* A dict is a function on the keys present.
EmptyDict == [k \in {} |-> 0]
dict_get(d, k, default) == IF k \in DOMAIN d THEN d[k] ELSE default
dict_set(d, k, v) == [x \in DOMAIN d \cup {k} |-> IF x = k THEN v ELSE d[x]]
dict_update(d, u) ==
  [x \in DOMAIN d \cup DOMAIN u |-> IF x \in DOMAIN u THEN u[x] ELSE d[x]]
dict_del(d, k) == [x \in DOMAIN d \ {k} |-> d[x]]

\* A formatted string is the tuple of its literal pieces and numbers:
\* f"HTTP {status}" is <<"HTTP ", status>>, a plain literal a 1-tuple.
Str(s) == <<s>>

\* A str is the sequence of its characters, each a one-character string
\* (ASCII; the letters of other scripts are outside the model).
UpperCase == <<"A", "B", "C", "D", "E", "F", "G", "H", "I", "J", "K", "L", "M",
               "N", "O", "P", "Q", "R", "S", "T", "U", "V", "W", "X", "Y", "Z">>
LowerCase == <<"a", "b", "c", "d", "e", "f", "g", "h", "i", "j", "k", "l", "m",
               "n", "o", "p", "q", "r", "s", "t", "u", "v", "w", "x", "y", "z">>
Digits == {"0", "1", "2", "3", "4", "5", "6", "7", "8", "9"}
Whitespace == {" ", "\t", "\n"}

lower_char(c) ==
  IF \E k \in DOMAIN UpperCase : UpperCase[k] = c
  THEN LowerCase[CHOOSE k \in DOMAIN UpperCase : UpperCase[k] = c]
  ELSE c

\* str.lower()
str_lower(s) == [k \in 1..Len(s) |-> lower_char(s[k])]

RECURSIVE str_lstrip(_, _)
str_lstrip(s, chars) ==
  IF s # <<>> /\ Head(s) \in chars THEN str_lstrip(Tail(s), chars) ELSE s

RECURSIVE str_rstrip(_, _)
str_rstrip(s, chars) ==
  IF s # <<>> /\ s[Len(s)] \in chars
  THEN str_rstrip(SubSeq(s, 1, Len(s) - 1), chars)
  ELSE s

\* str.strip() with chars = Whitespace, str.strip("_") with chars = {"_"}.
str_strip(s, chars) == str_rstrip(str_lstrip(s, chars), chars)

\* Every str of at most n characters over chars.
Strings(chars, n) == UNION { [1..k -> chars] : k \in 0..n }

\* list.sort(key=platinum, reverse=True) and sorted(..., key=platinum,
\* reverse=True): a stable sort, highest platinum first (rows of equal
\* platinum keep their order).
RECURSIVE insert_desc(_, _)
insert_desc(sorted, x) ==
  IF sorted = <<>> THEN <<x>>
  ELSE IF Head(sorted).platinum >= x.platinum
       THEN <<Head(sorted)>> \o insert_desc(Tail(sorted), x)
       ELSE <<x>> \o sorted

RECURSIVE sort_by_platinum(_)
sort_by_platinum(seq) ==
  IF seq = <<>> THEN <<>>
  ELSE insert_desc(sort_by_platinum(SubSeq(seq, 1, Len(seq) - 1)),
                   seq[Len(seq)])



(***************************************************************************)
(* Collaborators: the Item table, the SourceBalance table, the upstream    *)
(***************************************************************************)
\* None, told apart from every str.
NoneValue == <<"<None>">>

\* Rows the Item table may hold (inventory/models.py: name is unique,
\* source may be null or blank, price is a non-negative integer).
ItemRows ==
  << [id |-> 1, name |-> "ash prime set", source |-> <<"R", "e", "d", " ">>,
      category |-> "mods", quantity |-> 1, price |-> 3],
     [id |-> 2, name |-> "loki prime", source |-> NoneValue,
      category |-> "mods", quantity |-> 2, price |-> 5],
     [id |-> 3, name |-> "nova prime", source |-> <<"s", "m">>,
      category |-> "mods", quantity |-> 1, price |-> 1],
     [id |-> 4, name |-> "rhino prime", source |-> <<"r", "e", "d">>,
      category |-> "mods", quantity |-> 1, price |-> 4] >>

ItemTables ==
  { SubSeq(ItemRows, 1, n) : n \in 0..(IF MaxItems < Len(ItemRows)
                                       THEN MaxItems ELSE Len(ItemRows)) }

\* The SourceBalance table when the model starts.
SourceTable0 == [s \in {<<"r", "e", "d">>} |-> 3]

\* "for sb in SourceBalance.objects.all(): balances[sb.source] = sb.balance"
\* (the database is taken to answer; were it to fail, the run would go on
\* with the empty map).
get_source_balances == source_table

NoCall == [fn |-> "<no call>"]

\* "item.source.lower().strip()"
lower_strip(s) == str_strip(str_lower(s), Whitespace)

\* "item.source.strip() == ''"
is_blank(s) == str_strip(s, Whitespace) = <<>>

\* An item affordable only when its price is below the balance.
is_item_affordable_strict(item, balances) ==
  IF item.source = NoneValue \/ item.source = <<>> \/ is_blank(item.source)
  THEN TRUE
  ELSE item.price < dict_get(balances, lower_strip(item.source), 0)

is_item_affordable(item, balances) ==
  IF item.source = NoneValue \/ item.source = <<>> \/ is_blank(item.source)
  THEN TRUE
  ELSE item.price <= dict_get(balances, lower_strip(item.source), 0)

(***************************************************************************)
(* clean_item_name (views.py:77-89)                                        *)
(***************************************************************************)
\* name.replace(" ", "_")
replace_spaces(s) == [k \in 1..Len(s) |-> IF s[k] = " " THEN "_" ELSE s[k]]

\* The characters the class [a-z0-9_] matches.
SlugChars == { LowerCase[k] : k \in DOMAIN LowerCase } \cup Digits \cup {"_"}

\* re.sub(r"[^a-z0-9_]", "", name)
remove_others(s) == SelectSeq(s, LAMBDA c : c \in SlugChars)

\* re.sub(r"_+", "_", cleaned)
RECURSIVE collapse_underscores(_)
collapse_underscores(s) ==
  IF Len(s) < 2 THEN s
  ELSE IF s[1] = "_" /\ s[2] = "_" THEN collapse_underscores(Tail(s))
  ELSE <<s[1]>> \o collapse_underscores(Tail(s))

\* A cleaning that leaves runs of underscores as they are.
clean_item_name_no_collapse(name) ==
  str_strip(remove_others(replace_spaces(str_lower(name))), {"_"})

clean_item_name(name) ==
  str_strip(
    collapse_underscores(remove_others(replace_spaces(str_lower(name)))),
    {"_"})

\* Orders an upstream payload may list.
OrderPool ==
  { [order_type |-> "buy", platinum |-> 1, quantity |-> 1, mod_rank |-> 0,
     user |-> [ingame_name |-> "u1", reputation |-> 5, status |-> "ingame"]],
    [order_type |-> "buy", platinum |-> 2, quantity |-> 1, mod_rank |-> 0,
     user |-> [ingame_name |-> "u2", reputation |-> 0, status |-> "ingame"]],
    [order_type |-> "buy", platinum |-> 3, quantity |-> 1, mod_rank |-> 0,
     user |-> [ingame_name |-> "u3", reputation |-> 1, status |-> "offline"]],
    [order_type |-> "sell", platinum |-> 3, quantity |-> 1, mod_rank |-> 0,
     user |-> [ingame_name |-> "u4", reputation |-> 2, status |-> "ingame"]] }

\* Order lists of up to MaxOrders distinct orders, in any order.
Payloads ==
  { p \in UNION { [1..k -> OrderPool] : k \in 0..MaxOrders } :
      \A a, b \in DOMAIN p : a # b => p[a] # p[b] }

\* What one requests.get may produce: a transport failure, a status other
\* than 200, a 200 with an order list, a 200 whose body is not the JSON
\* object expected.
Replies ==
  { [kind |-> "transport_error", status |-> 0, orders |-> <<>>] }
  \cup { [kind |-> "http", status |-> s, orders |-> <<>>] : s \in {429, 500} }
  \cup { [kind |-> "http", status |-> 200, orders |-> p] : p \in Payloads }
  \cup { [kind |-> "bad_body", status |-> 200, orders |-> <<>>] }

(***************************************************************************)
(* fetch_item_orders (views.py:112-152), after wait_if_needed returned     *)
(***************************************************************************)
Returned(v) == [raised |-> FALSE, value |-> v, exc |-> <<>>]
Raised(e) == [raised |-> TRUE, value |-> EmptyDict, exc |-> e]

buy_orders(orders) ==
  SelectSeq(orders, LAMBDA o : o.order_type = "buy" /\ o.user.status = "ingame")

fetch_item_orders(item_name, reply) ==
  IF reply.kind = "transport_error"
  THEN Returned([item |-> item_name, status |-> "failed", data |-> NoneValue,
                 error |-> Str("ConnectionError")])
  ELSE IF reply.status = 429
  THEN Returned([item |-> item_name, status |-> "rate_limited",
                 data |-> NoneValue])
  ELSE IF reply.status # 200
  THEN Returned([item |-> item_name, status |-> "failed", data |-> NoneValue,
                 error |-> <<"HTTP ", reply.status>>])
  ELSE IF reply.kind = "bad_body"
  THEN Raised(Str("AttributeError"))
  ELSE Returned([item |-> item_name, status |-> "success",
                 data |-> sort_by_platinum(buy_orders(reply.orders))])


(***************************************************************************)
(* The cache and the two publish helpers (views.py:269-303)                *)
(***************************************************************************)
SessionIds == {"s1", "s2"}
NoSessionId == "<no session_id>"

\* f'fetch_progress_{session_id}'
progress_key(s) == <<"fetch_progress_", s>>
initial_data_loaded_key == <<"initial_data_loaded">>

\* cache.get(key, default)
cache_get(c, k, default) == dict_get(c, k, default)
\* cache.set(key, value, timeout)
cache_set(c, k, v) == dict_set(c, k, v)

(***************************************************************************)
(* Python float arithmetic (IEEE 754 binary64, round to nearest, ties to   *)
(* even), as far as progress_percent uses it: int / int, float * int and   *)
(* int(float).  A positive float is [exp, mant] with the value             *)
(* mant * 2^(exp - (MantBits - 1)), where mant is its significand, an      *)
(* integer of exactly MantBits bits; 0.0 has the empty mant.  An integer   *)
(* too long for one machine word is a sequence of limbs of LimbBits bits,  *)
(* the most significant first.                                             *)
(***************************************************************************)
\* Bits of the significand of a binary64 (sys.float_info.mant_dig).
MantBits == 53
\* Bits of a limb: products of a limb and a small integer fit a word.
LimbBits == 18

RECURSIVE power_of_two(_)
power_of_two(k) == IF k = 0 THEN 1 ELSE 2 * power_of_two(k - 1)

\* 2^k for the k within a limb.
Pow2Table == [k \in 0..LimbBits |-> power_of_two(k)]
pow2(k) == Pow2Table[k]

Base == pow2(LimbBits)

FloatZero == [exp |-> 0, mant |-> <<>>]

\* Bits of a limb: 0 for 0.
RECURSIVE bit_length(_)
bit_length(n) == IF n = 0 THEN 0 ELSE 1 + bit_length(n \div 2)

RECURSIVE strip_limbs(_)
strip_limbs(x) ==
  IF x # <<>> /\ Head(x) = 0 THEN strip_limbs(Tail(x)) ELSE x

\* Bits of x, for x without leading zero limbs.
big_bit_length(x) ==
  IF x = <<>> THEN 0 ELSE LimbBits * (Len(x) - 1) + bit_length(x[1])

\* The integer x stands for, for x that fits a word.
RECURSIVE big_value(_)
big_value(x) ==
  IF x = <<>> THEN 0
  ELSE Base * big_value(SubSeq(x, 1, Len(x) - 1)) + x[Len(x)]

\* x \div 2^d, for d below the bits of x.
big_shift_right(x, d) ==
  LET whole == d \div LimbBits
      part == d % LimbBits
  IN  [i \in 1..(Len(x) - whole) |->
         (IF i = 1 THEN 0 ELSE (x[i - 1] % pow2(part)) * pow2(LimbBits - part))
         + x[i] \div pow2(part)]

\* Bit j of x, bit 0 the least significant.
big_bit(x, j) == (x[Len(x) - j \div LimbBits] \div pow2(j % LimbBits)) % 2

\* x % 2^d # 0.
big_low_bits_set(x, d) ==
  LET whole == d \div LimbBits
      part == d % LimbBits
  IN  \/ \E i \in (Len(x) - whole + 1)..Len(x) : x[i] # 0
      \/ part > 0 /\ x[Len(x) - whole] % pow2(part) # 0

\* x + 1.
RECURSIVE big_increment(_)
big_increment(x) ==
  IF x = <<>> THEN <<1>>
  ELSE IF x[Len(x)] + 1 < Base
  THEN SubSeq(x, 1, Len(x) - 1) \o <<x[Len(x)] + 1>>
  ELSE big_increment(SubSeq(x, 1, Len(x) - 1)) \o <<0>>

\* x * n + carry, for a small n.
RECURSIVE big_mul_small(_, _, _)
big_mul_small(x, n, carry) ==
  IF x = <<>> THEN (IF carry = 0 THEN <<>> ELSE <<carry>>)
  ELSE LET p == x[Len(x)] * n + carry
       IN  big_mul_small(SubSeq(x, 1, Len(x) - 1), n, p \div Base)
           \o <<p % Base>>

\* The next n limbs of the quotient of r by t, for r < t, and the remainder
\* left after them (long division).
RECURSIVE big_div_limbs(_, _, _)
big_div_limbs(r, t, n) ==
  IF n = 0 THEN <<>>
  ELSE <<(r * Base) \div t>> \o big_div_limbs((r * Base) % t, t, n - 1)

RECURSIVE big_div_rem(_, _, _)
big_div_rem(r, t, n) ==
  IF n = 0 THEN r ELSE big_div_rem((r * Base) % t, t, n - 1)

\* The float nearest to x * 2^scale, or to a number above it by less than
\* 2^scale when sticky: x has more than MantBits bits; a tie goes to the
\* even significand.
float_round(x, sticky, scale) ==
  LET y == strip_limbs(x)
      bits == big_bit_length(y)
      d == bits - MantBits
      kept == strip_limbs(big_shift_right(y, d))
      round_up == /\ big_bit(y, d - 1) = 1
                  /\ \/ sticky
                     \/ big_low_bits_set(y, d - 1)
                     \/ big_bit(y, d) = 1
      up == strip_limbs(big_increment(kept))
  IN  IF ~round_up THEN [exp |-> scale + bits - 1, mant |-> kept]
      ELSE IF big_bit_length(up) > MantBits
      THEN [exp |-> scale + bits, mant |-> big_shift_right(up, 1)]
      ELSE [exp |-> scale + bits - 1, mant |-> up]

\* Limbs of the fraction of a quotient: MantBits bits and a guard bit are
\* left after the leading zeros of any quotient of integers below 2^13.
FractionLimbs == MantBits \div LimbBits + 2

\* "s / t" for integers s >= 0 and t > 0: the quotient, correctly rounded.
float_div(s, t) ==
  IF s = 0 THEN FloatZero
  ELSE float_round(<<s \div t>> \o big_div_limbs(s % t, t, FractionLimbs),
                   big_div_rem(s % t, t, FractionLimbs) # 0,
                   0 - LimbBits * FractionLimbs)

\* "x * n" for a float x and an integer n >= 2 that a float holds exactly:
\* the product, correctly rounded.
float_mul(x, n) ==
  IF x.mant = <<>> THEN FloatZero
  ELSE float_round(big_mul_small(x.mant, n, 0), FALSE,
                   x.exp - (MantBits - 1))

\* "int(x)" for a float x >= 0 below 2^31: the fraction is dropped.
float_int(x) ==
  IF x.mant = <<>> \/ x.exp < 0 THEN 0
  ELSE big_value(strip_limbs(
         big_shift_right(x.mant, (MantBits - 1) - x.exp)))

\* "int((successful_items / total_items) * 100)" for every total_items of a
\* table the model holds and every successful_items up to it.
PercentTable ==
  [total \in 1..MaxTotal |->
     [successful \in 0..total |->
        float_int(float_mul(float_div(successful, total), 100))]]

\* A progress that is 100 whatever was fetched.
progress_percent_full(successful, total) == 100

\* "int((successful_items / total_items) * 100) if total_items > 0 else 100".
progress_percent(successful, total) ==
  IF total > 0 THEN PercentTable[total][successful] ELSE 100

update_progress_only(c, s, status, processed, successful, total) ==
  LET existing_data == cache_get(c, progress_key(s), EmptyDict)
  IN  cache_set(c, progress_key(s),
                dict_update(existing_data,
                            [status |-> status,
                             progress |-> progress_percent(successful, total),
                             processed_items |-> processed,
                             successful_items |-> successful,
                             total_items |-> total]))

\* Rows published in the order they arrived.
sorted_market_data_unsorted(md) == md

\* "sorted(market_data, key=lambda x: x['platinum'], reverse=True)".
sorted_market_data(md) == sort_by_platinum(md)

update_full_data(c, s, status, md, failed, processed, successful, total) ==
  cache_set(c, progress_key(s),
            [status |-> status,
             market_data |-> sorted_market_data(md),
             failed_items |-> failed,
             total_orders |-> Len(md),
             total_failed |-> Len(failed),
             progress |-> progress_percent(successful, total),
             processed_items |-> processed,
             successful_items |-> successful,
             total_items |-> total])

\* What a reader of record rec sees of the run's progress: its counters and
\* the sizes of its two lists (a field the record lacks counts as nothing).
counters_of(rec) ==
  [progress |-> dict_get(rec, "progress", 0),
   processed_items |-> dict_get(rec, "processed_items", 0),
   successful_items |-> dict_get(rec, "successful_items", 0),
   market_rows |-> Len(dict_get(rec, "market_data", <<>>)),
   failed_entries |-> Len(dict_get(rec, "failed_items", <<>>))]

\* History of the writes to the session's record.  Every step writes the
\* record at most once, and a written record is still stored when the step
\* ends, so the history follows from the store after the step.
TrackWrites ==
  LET k == progress_key(sid') IN
  /\ last_written' = IF k \in DOMAIN cache'
                      THEN counters_of(cache'[k]) ELSE last_written
  /\ statuses_written' = IF k \in DOMAIN cache'
                          THEN statuses_written \cup {cache'[k].status}
                          ELSE statuses_written

(***************************************************************************)
(* fetch_market_data (views.py:171-250): start and progress                *)
(***************************************************************************)
NoResponse == [handler |-> "none", code |-> 0, session_id |-> NoSessionId,
               body |-> EmptyDict]

\* str(uuid.uuid4()): an id no earlier start was given.
uuid4 == CHOOSE s \in SessionIds : s \notin sessions

\* A first record that already says fetching.
initial_record_fetching(n) ==
  [status |-> Str("fetching"), market_data |-> <<>>, failed_items |-> <<>>,
   total_orders |-> 0, total_failed |-> 0, progress |-> 0,
   processed_items |-> 0, total_items |-> n]

\* The record start stores for a new session (views.py:193-202).
initial_record(n) ==
  [status |-> Str("starting"), market_data |-> <<>>, failed_items |-> <<>>,
   total_orders |-> 0, total_failed |-> 0, progress |-> 0,
   processed_items |-> 0, total_items |-> n]

\* action == 'start' (views.py:175-213).  One start request is followed:
\* the run it begins is the run the run variables describe.
Start ==
  /\ pc = "idle"
  /\ IF item_table = <<>>
     THEN /\ response' = [handler |-> "start", code |-> 200,
                          session_id |-> NoSessionId,
                          body |-> [status |-> Str("complete"),
                                    market_data |-> <<>>,
                                    failed_items |-> <<>>,
                                    total_orders |-> 0, total_failed |-> 0,
                                    progress |-> 100]]
          /\ UNCHANGED <<sessions, threads, cache, pc, sid, items>>
     ELSE LET s == uuid4 IN
          /\ sessions' = sessions \cup {s}
          /\ cache' = cache_set(cache, progress_key(s),
                                initial_record(Len(item_table)))
          /\ threads' = [threads EXCEPT ![s] = @ + 1]
          /\ pc' = "spawned"
          /\ sid' = s
          /\ items' = item_table
          /\ response' = [handler |-> "start", code |-> 200, session_id |-> s,
                          body |-> [session_id |-> s, status |-> Str("started"),
                                    total_items |-> Len(item_table)]]
  /\ UNCHANGED <<item_table, source_balances, market_data,
                 failed_items, retry_queue, next_retry_queue, processed_items,
                 successful_items, batch_count, retry_attempt, pending, folded>>
  /\ UNCHANGED <<rlVars, otherVars>>
  /\ TrackWrites

\* action == 'progress' (views.py:215-225) for a request with session_id s:
\* the handler reads the cache once and changes nothing, so its response
\* is a function of the cache.
progress_response(c, s) ==
  LET progress_data == cache_get(c, progress_key(s), EmptyDict)
  IN  IF DOMAIN progress_data = {}
      THEN [code |-> 404,
            body |-> [error |-> Str("Session not found or expired")]]
      ELSE [code |-> 200, body |-> progress_data]

\* The store drops a progress record.  The record's timeout (600 s) is
\* counted from its last write, and the run does not bound the time between
\* two writes (a pass writes only when a fetch succeeds or, in the first
\* pass, at every batch_size-th result, and a fetch may take any time), so
\* the record may be dropped between any two steps.
Expire(s) ==
  /\ progress_key(s) \in DOMAIN cache
  /\ cache' = dict_del(cache, progress_key(s))
  /\ UNCHANGED <<item_table, sessions, threads, response>>
  /\ UNCHANGED <<rlVars, runVars, ghostVars, otherVars>>


(***************************************************************************)
(* fetch_market_data_background (views.py:252-448)                         *)
(*                                                                         *)
(* The thread's position pc:                                               *)
(*   idle -> spawned -> first_pass (-> batch_publish)* -> after_first      *)
(*        -> (retry_begin -> retry_pass -> retry_end)* -> final            *)
(*        -> mark_loaded -> done                                           *)
(* and crashed, for a thread ended by an exception nothing catches.        *)
(* Each step holds at most one write of the session's record, so every     *)
(* record the store ever holds is the record of some state.  A future's    *)
(* fetch_item_orders runs in a pool worker; the step that folds a future   *)
(* draws the upstream's reply for it.                                      *)
(***************************************************************************)
total_items == Len(items)

market_row(item, order, is_affordable) ==
  [item |-> item.name,
   item_id |-> item.id,
   category |-> item.category,
   source |-> IF item.source = NoneValue \/ item.source = <<>>
              THEN <<"U", "n", "k", "n", "o", "w", "n">> ELSE item.source,
   inventory_quantity |-> item.quantity,
   buyer |-> order.user.ingame_name,
   platinum |-> order.platinum,
   order_quantity |-> order.quantity,
   rank |-> order.mod_rank,
   user_reputation |-> order.user.reputation,
   user_status |-> order.user.status,
   is_affordable |-> is_affordable]

\* "for order in result['data']: market_data.append({...})"
market_rows(item, orders, is_affordable) ==
  [k \in 1..Len(orders) |-> market_row(item, orders[k], is_affordable)]

\* An entry of failed_items.  Its 'url' field, a function of the item name
\* alone, is left out.
failed_entry(item_name, error) == [item |-> item_name, error |-> error]

\* "next((i for i in items if i.name == item_name), None)", as an index
\* into items (0 for None).
find_item(item_name) ==
  IF \E i \in 1..Len(items) : items[i].name = item_name
  THEN CHOOSE i \in 1..Len(items) :
         /\ items[i].name = item_name
         /\ \A j \in 1..(i - 1) : items[j].name # item_name
  ELSE 0

\* A handler for the transport errors of requests only.
catches_request_errors(exc) == exc = Str("ConnectionError")

\* "except Exception as e" (views.py:350, :421): every exception a future
\* raises is caught; an uncaught one would end the thread.
catches(exc) == TRUE

\* A counter that is left as it was.
count_skipped(n) == n

\* "processed_items += 1" (views.py:315).
count_processed(n) == n + 1

\* "retry_attempt += 1" (views.py:371).
next_attempt(n) == n + 1

\* A loop that goes on for as long as items are rate-limited.
loop_continues_unbounded(queue, attempt) == queue # <<>>

\* "while retry_queue and retry_attempt < max_retry_attempts" (views.py:370).
loop_continues(queue, attempt) ==
  queue # <<>> /\ attempt < max_retry_attempts

\* A retry queue that is not replaced at the end of a pass.
next_batch_kept(queue, next_queue) == queue

\* "retry_queue = next_retry_queue" (views.py:429).
next_batch(queue, next_queue) == next_queue

\* A status outside the documented ones.
status_after_first_pass_other(queue) == Str("done")

\* "'retrying' if retry_queue else 'completing'" (views.py:364).
status_after_first_pass(queue) ==
  IF queue # <<>> THEN Str("retrying") ELSE Str("completing")

\* f'retrying (attempt {retry_attempt})' (views.py:375).
status_attempt(k) == <<"retrying (attempt ", k, ")">>

\* f'retrying (remaining: {len(retry_queue)})' (views.py:433).
status_remaining(n) == <<"retrying (remaining: ", n, ")">>

\* Rows flagged against the table as it is when the row is built.
row_balances_reread(snapshot, table) == table

\* The map given to is_item_affordable for an item's rows: the run's local
\* source_balances (views.py:322, :391), not the table.
row_balances(snapshot, table) == snapshot

\* Lines 256-310: the balance snapshot, the run's locals, and the submission
\* of one future per item.
RunBegin ==
  /\ pc = "spawned"
  /\ source_balances' = get_source_balances
  /\ market_data' = <<>>
  /\ failed_items' = <<>>
  /\ retry_queue' = <<>>
  /\ next_retry_queue' = <<>>
  /\ processed_items' = 0
  /\ successful_items' = 0
  /\ batch_count' = 0
  /\ retry_attempt' = 0
  /\ pending' = 1..Len(items)
  /\ folded' = [i \in 1..Len(items) |-> <<>>]
  /\ pc' = "first_pass"
  /\ UNCHANGED <<sid, items, item_table, sessions, threads, cache, response>>
  /\ UNCHANGED <<rlVars, otherVars>>
  /\ TrackWrites

\* Lines 313-357 for the future of items[i], completed with the upstream's
\* reply: one turn of "for future in as_completed(future_to_item)".
FirstPassResult(i, reply) ==
  /\ pc = "first_pass"
  /\ i \in pending
  /\ LET item == items[i]
         out == fetch_item_orders(item.name, reply)
         res == out.value
         processed == count_processed(processed_items)
     IN  /\ processed_items' = processed
         /\ IF out.raised
            THEN \* except Exception as e
                 /\ failed_items' =
                      IF catches(out.exc)
                      THEN Append(failed_items,
                                  failed_entry(item.name, out.exc))
                      ELSE failed_items
                 /\ folded' = [folded EXCEPT ![i] = Append(@, "raised")]
                 /\ UNCHANGED <<successful_items, market_data, retry_queue,
                                cache>>
            ELSE IF res.status = "success"
            THEN /\ successful_items' = successful_items + 1
                 /\ market_data' =
                      market_data \o
                      market_rows(item, res.data,
                                  is_item_affordable(
                                    item, row_balances(source_balances,
                                                       source_table)))
                 /\ cache' = update_progress_only(
                               cache, sid, Str("fetching"), processed,
                               successful_items + 1, total_items)
                 /\ folded' = [folded EXCEPT ![i] = Append(@, "success")]
                 /\ UNCHANGED <<failed_items, retry_queue>>
            ELSE IF res.status = "rate_limited"
            THEN /\ retry_queue' = Append(retry_queue, item.name)
                 /\ folded' = [folded EXCEPT ![i] = Append(@, "rate_limited")]
                 /\ UNCHANGED <<successful_items, market_data, failed_items,
                                cache>>
            ELSE /\ failed_items' =
                      Append(failed_items,
                             failed_entry(item.name,
                                          dict_get(res, "error",
                                                   Str("Unknown error"))))
                 /\ folded' = [folded EXCEPT ![i] = Append(@, "failed")]
                 /\ UNCHANGED <<successful_items, market_data, retry_queue,
                                cache>>
         /\ pc' = IF out.raised /\ ~catches(out.exc) THEN "crashed"
                  ELSE IF batch_count + 1 >= batch_size THEN "batch_publish"
                  ELSE IF pending \ {i} = {} THEN "after_first"
                  ELSE "first_pass"
  /\ pending' = pending \ {i}
  /\ batch_count' = batch_count + 1
  /\ UNCHANGED <<sid, items, source_balances, next_retry_queue, retry_attempt,
                 item_table, sessions, threads, response>>
  /\ UNCHANGED <<rlVars, otherVars>>
  /\ TrackWrites

\* Lines 358-361: "if batch_count >= 10: update_full_data('fetching')".
BatchPublish ==
  /\ pc = "batch_publish"
  /\ cache' = update_full_data(cache, sid, Str("fetching"), market_data,
                               failed_items, processed_items,
                               successful_items, total_items)
  /\ batch_count' = 0
  /\ pc' = IF pending = {} THEN "after_first" ELSE "first_pass"
  /\ UNCHANGED <<sid, items, source_balances, market_data, failed_items,
                 retry_queue, next_retry_queue, processed_items,
                 successful_items, retry_attempt, pending, folded,
                 item_table, sessions, threads, response>>
  /\ UNCHANGED <<rlVars, otherVars>>
  /\ TrackWrites

\* Lines 363-370: the publish after the first pass and the first test of
\* the while condition.
AfterFirstPass ==
  /\ pc = "after_first"
  /\ cache' = update_full_data(cache, sid,
                               status_after_first_pass(retry_queue),
                               market_data, failed_items, processed_items,
                               successful_items, total_items)
  /\ retry_attempt' = 0
  /\ pc' = IF loop_continues(retry_queue, 0) THEN "retry_begin" ELSE "final"
  /\ UNCHANGED <<sid, items, source_balances, market_data, failed_items,
                 retry_queue, next_retry_queue, processed_items,
                 successful_items, batch_count, pending, folded,
                 item_table, sessions, threads, response>>
  /\ UNCHANGED <<rlVars, otherVars>>
  /\ TrackWrites

\* Lines 371-381: the head of a retry pass, after time.sleep(2).
RetryBegin ==
  /\ pc = "retry_begin"
  /\ retry_attempt' = next_attempt(retry_attempt)
  /\ next_retry_queue' = <<>>
  /\ cache' = update_full_data(cache, sid,
                               status_attempt(next_attempt(retry_attempt)),
                               market_data, failed_items, processed_items,
                               successful_items, total_items)
  /\ pending' = 1..Len(retry_queue)
  /\ pc' = "retry_pass"
  /\ UNCHANGED <<sid, items, source_balances, market_data, failed_items,
                 retry_queue, processed_items, successful_items, batch_count,
                 folded, item_table, sessions, threads, response>>
  /\ UNCHANGED <<rlVars, otherVars>>
  /\ TrackWrites

\* Lines 383-426 for the future of retry_queue[j]: one turn of
\* "for future in as_completed(retry_futures)".
RetryResult(j, reply) ==
  /\ pc = "retry_pass"
  /\ j \in pending
  /\ LET item_name == retry_queue[j]
         out == fetch_item_orders(item_name, reply)
         res == out.value
         i == find_item(item_name)
     IN  IF out.raised
         THEN /\ failed_items' =
                   IF catches(out.exc)
                   THEN Append(failed_items, failed_entry(item_name, out.exc))
                   ELSE failed_items
              /\ folded' = [folded EXCEPT ![i] = Append(@, "raised")]
              /\ UNCHANGED <<successful_items, market_data, next_retry_queue,
                             cache>>
         ELSE IF res.status = "success"
         THEN /\ successful_items' = successful_items + 1
              /\ market_data' =
                   IF i # 0
                   THEN market_data \o
                        market_rows(items[i], res.data,
                                    is_item_affordable(
                                      items[i],
                                      row_balances(source_balances,
                                                   source_table)))
                   ELSE market_data
              /\ cache' = update_progress_only(
                            cache, sid, Str("retrying"), processed_items,
                            successful_items + 1, total_items)
              /\ folded' = [folded EXCEPT ![i] = Append(@, "success")]
              /\ UNCHANGED <<failed_items, next_retry_queue>>
         ELSE IF res.status = "rate_limited"
         THEN /\ next_retry_queue' = Append(next_retry_queue, item_name)
              /\ folded' = [folded EXCEPT ![i] = Append(@, "rate_limited")]
              /\ UNCHANGED <<successful_items, market_data, failed_items,
                             cache>>
         ELSE /\ failed_items' =
                   Append(failed_items,
                          failed_entry(item_name,
                                       dict_get(res, "error",
                                                Str("Retry failed"))))
              /\ folded' = [folded EXCEPT ![i] = Append(@, "failed")]
              /\ UNCHANGED <<successful_items, market_data, next_retry_queue,
                             cache>>
  /\ pc' = IF LET out == fetch_item_orders(retry_queue[j], reply)
              IN  out.raised /\ ~catches(out.exc)
           THEN "crashed"
           ELSE IF pending \ {j} = {} THEN "retry_end" ELSE "retry_pass"
  /\ pending' = pending \ {j}
  /\ UNCHANGED <<sid, items, source_balances, retry_queue, processed_items,
                 batch_count, retry_attempt, item_table, sessions, threads,
                 response>>
  /\ UNCHANGED <<rlVars, otherVars>>
  /\ TrackWrites

\* Lines 428-437 and the next test of the while condition.
RetryEnd ==
  /\ pc = "retry_end"
  /\ retry_queue' = next_batch(retry_queue, next_retry_queue)
  /\ cache' = IF retry_queue' # <<>>
              THEN update_full_data(cache, sid,
                                    status_remaining(Len(retry_queue')),
                                    market_data, failed_items,
                                    processed_items, successful_items,
                                    total_items)
              ELSE cache
  /\ pc' = IF loop_continues(retry_queue', retry_attempt)
           THEN "retry_begin" ELSE "final"
  /\ UNCHANGED <<sid, items, source_balances, market_data, failed_items,
                 next_retry_queue, processed_items, successful_items,
                 batch_count, retry_attempt, pending, folded,
                 item_table, sessions, threads, response>>
  /\ UNCHANGED <<rlVars, otherVars>>
  /\ TrackWrites

\* Lines 439-440: "update_full_data('complete')".
FinalUpdate ==
  /\ pc = "final"
  /\ cache' = update_full_data(cache, sid, Str("complete"), market_data,
                               failed_items, processed_items,
                               successful_items, total_items)
  /\ pc' = "mark_loaded"
  /\ UNCHANGED <<sid, items, source_balances, market_data, failed_items,
                 retry_queue, next_retry_queue, processed_items,
                 successful_items, batch_count, retry_attempt, pending,
                 folded, item_table, sessions, threads, response>>
  /\ UNCHANGED <<rlVars, otherVars>>
  /\ TrackWrites

\* A run that publishes its counters once more after the final update.
MarkInitialDataLoaded_republish ==
  /\ pc = "mark_loaded"
  /\ cache' = update_progress_only(cache, sid, Str("fetching"),
                                   processed_items, successful_items,
                                   total_items)
  /\ pc' = "done"
  /\ UNCHANGED <<sid, items, source_balances, market_data, failed_items,
                 retry_queue, next_retry_queue, processed_items,
                 successful_items, batch_count, retry_attempt, pending,
                 folded, item_table, sessions, threads, response>>
  /\ UNCHANGED <<rlVars, otherVars>>
  /\ TrackWrites

\* Lines 442-448: "cache.set('initial_data_loaded', True, None)"; the
\* thread ends.
MarkInitialDataLoaded ==
  /\ pc = "mark_loaded"
  /\ cache' = cache_set(cache, initial_data_loaded_key, TRUE)
  /\ pc' = "done"
  /\ UNCHANGED <<sid, items, source_balances, market_data, failed_items,
                 retry_queue, next_retry_queue, processed_items,
                 successful_items, batch_count, retry_attempt, pending,
                 folded, item_table, sessions, threads, response>>
  /\ UNCHANGED <<rlVars, otherVars>>
  /\ TrackWrites

(***************************************************************************)
(* Specifications                                                          *)
(***************************************************************************)
\* No start request was made, no thread runs, nothing was written.
InitIdle ==
  /\ sessions = {}
  /\ threads = [s \in SessionIds |-> 0]
  /\ cache = EmptyDict
  /\ response = NoResponse
  /\ pc = "idle"
  /\ sid = NoSessionId
  /\ items = <<>>
  /\ source_balances = EmptyDict
  /\ market_data = <<>>
  /\ failed_items = <<>>
  /\ retry_queue = <<>>
  /\ next_retry_queue = <<>>
  /\ processed_items = 0
  /\ successful_items = 0
  /\ batch_count = 0
  /\ retry_attempt = 0
  /\ pending = {}
  /\ folded = <<>>
  /\ last_written = counters_of(EmptyDict)
  /\ statuses_written = {}
  /\ source_table = SourceTable0
  /\ started = {}
  /\ running = {}

Init ==
  /\ InitRL
  /\ InitIdle
  /\ item_table \in ItemTables
  /\ fn_input = NoCall
  /\ fn_output = NoCall

\* The steps of the background thread.
RunStep ==
  \/ RunBegin
  \/ \E i \in 1..MaxItems, reply \in Replies : FirstPassResult(i, reply)
  \/ BatchPublish
  \/ AfterFirstPass
  \/ RetryBegin
  \/ \E j \in 1..MaxItems, reply \in Replies : RetryResult(j, reply)
  \/ RetryEnd
  \/ FinalUpdate
  \/ MarkInitialDataLoaded

Next ==
  \/ Start
  \/ \E s \in SessionIds : Expire(s)
  \/ RunStep

Spec == Init /\ [][Next]_vars

\* The thread is scheduled and every fetch returns.
FairSpec == Spec /\ WF_vars(RunStep)

WorkerStep(w) ==
  \/ CallWaitIfNeeded(w)
  \/ AcquireAndEvict(w)
  \/ StartSleep(w)
  \/ AppendNoWait(w)
  \/ WakeAndAppend(w)

NextRL ==
  \/ Tick
  \/ \E w \in Workers : WorkerStep(w)

SpecRL == Init /\ [][NextRL]_vars

\* The RateLimiter with a clock that never stops, workers that run, and a
\* lock that is granted fairly: a worker that waits for the lock gets it
\* if the lock is free again and again.
NextRLFair ==
  \/ Tick
  \/ TickPast
  \/ \E w \in Workers : WorkerStep(w)

FairSpecRL ==
  /\ Init
  /\ [][NextRLFair]_vars
  /\ WF_vars(Tick \/ TickPast)
  /\ \A w \in Workers :
       /\ WF_vars(StartSleep(w) \/ AppendNoWait(w) \/ WakeAndAppend(w))
       /\ SF_vars(AcquireAndEvict(w))

(***************************************************************************)
(* The source-balance requests (sources/views.py), made while a run is     *)
(* under way                                                               *)
(***************************************************************************)
\* The names and the balance the requests carry.
SourceNameInputs == { <<"R", "e", "d", " ">>, <<"s", "m">> }
BalanceInputs == {5}

\* "SourceBalance.objects.filter(source__iexact=source_name)", without the
\* row whose key is except_key.
source_exists(table, source_name, except_key) ==
  \E key \in DOMAIN table \ {except_key} :
    str_lower(key) = str_lower(source_name)

\* add_source (sources/views.py:15-53): a request the handler refuses
\* changes nothing.
AddSource(name, balance) ==
  /\ LET source_name == str_strip(name, Whitespace)
     IN  source_table' =
           IF \/ source_name = <<>>
              \/ balance < 0
              \/ source_exists(source_table, source_name, NoneValue)
           THEN source_table
           ELSE dict_set(source_table, str_lower(source_name), balance)
  /\ UNCHANGED <<rlVars, webVars, runVars, ghostVars, fn_input, fn_output,
               poolVars>>

\* edit_source (sources/views.py:55-94) for the row whose source is key.
EditSource(key, name, balance) ==
  /\ key \in DOMAIN source_table
  /\ LET source_name == str_strip(name, Whitespace)
     IN  source_table' =
           IF \/ source_name = <<>>
              \/ balance < 0
              \/ source_exists(source_table, source_name, key)
           THEN source_table
           ELSE dict_set(dict_del(source_table, key),
                         str_lower(source_name), balance)
  /\ UNCHANGED <<rlVars, webVars, runVars, ghostVars, fn_input, fn_output,
               poolVars>>

\* delete_source (sources/views.py:96-111) for the row whose source is key.
DeleteSource(key) ==
  /\ key \in DOMAIN source_table
  /\ source_table' = dict_del(source_table, key)
  /\ UNCHANGED <<rlVars, webVars, runVars, ghostVars, fn_input, fn_output,
               poolVars>>

\* A payload of two orders that are kept, and the replies of an upstream
\* that answers with it or with HTTP 429.
TwoBuyOrders ==
  << CHOOSE o \in OrderPool : o.platinum = 1,
     CHOOSE o \in OrderPool : o.platinum = 2 >>

RepliesBal ==
  { [kind |-> "http", status |-> 429, orders |-> <<>>],
    [kind |-> "http", status |-> 200, orders |-> TwoBuyOrders] }

SourceKeys == { str_lower(str_strip(n, Whitespace)) : n \in SourceNameInputs }

\* One run, with the SourceBalance table edited at any time.
NextBal ==
  \/ Start
  \/ RunBegin
  \/ \E i \in 1..MaxItems, reply \in RepliesBal : FirstPassResult(i, reply)
  \/ BatchPublish
  \/ AfterFirstPass
  \/ RetryBegin
  \/ \E j \in 1..MaxItems, reply \in RepliesBal : RetryResult(j, reply)
  \/ RetryEnd
  \/ FinalUpdate
  \/ MarkInitialDataLoaded
  \/ \E n \in SourceNameInputs, b \in BalanceInputs : AddSource(n, b)
  \/ \E k \in SourceKeys, n \in SourceNameInputs, b \in BalanceInputs :
       EditSource(k, n, b)
  \/ \E k \in SourceKeys : DeleteSource(k)

SpecBal == Init /\ [][NextBal]_vars

(***************************************************************************)
(* The ThreadPoolExecutor of each pass (views.py:306-310, :377-381): the    *)
(* run with the pool workers' side of every future                         *)
(***************************************************************************)
\* The executor of a pass exists from the submission of its futures to the
\* end of its "with" block.
in_first_pass == pc \in {"first_pass", "batch_publish"}
in_retry_pass == pc = "retry_pass"

\* max_workers of the executor of the pass under way.
pool_width == IF in_first_pass THEN max_workers ELSE retry_max_workers

\* The future of index i submitted in the pass under way (pass 0 is the
\* first pass, pass k the k-th retry pass).
future(i) == <<retry_attempt, i>>

\* A table of one item more than the first pool is wide.
PoolItemTable ==
  SubSeq(ItemRows, 1, IF max_workers < Len(ItemRows)
                      THEN max_workers + 1 ELSE Len(ItemRows))

\* A pool worker that is free takes the next work item from the executor's
\* queue, in the order of submission, and calls fetch_item_orders: the
\* executor keeps at most max_workers worker threads.
PoolRun(i) ==
  /\ in_first_pass \/ in_retry_pass
  /\ i \in pending
  /\ future(i) \notin started
  /\ \A h \in 1..(i - 1) : future(h) \in started
  /\ Cardinality(running) < pool_width
  /\ started' = started \cup {future(i)}
  /\ running' = running \cup {future(i)}
  /\ UNCHANGED <<rlVars, webVars, runVars, ghostVars, source_table, fn_input,
                 fn_output>>

\* The fetch_item_orders of a future returns or raises; its worker is free.
PoolReturn(i) ==
  /\ future(i) \in running
  /\ running' = running \ {future(i)}
  /\ UNCHANGED started
  /\ UNCHANGED <<rlVars, webVars, runVars, ghostVars, source_table, fn_input,
                 fn_output>>

\* as_completed yields a future only when its call is over.
completed(i) == future(i) \in started \ running

InitPool ==
  /\ InitRL
  /\ InitIdle
  /\ item_table = PoolItemTable
  /\ fn_input = NoCall
  /\ fn_output = NoCall

NextPool ==
  \/ Start
  \/ RunBegin
  \/ \E i \in 1..Len(ItemRows) : PoolRun(i)
  \/ \E i \in 1..Len(ItemRows) : PoolReturn(i)
  \/ \E i \in 1..Len(ItemRows), reply \in RepliesBal :
       completed(i) /\ FirstPassResult(i, reply)
  \/ BatchPublish
  \/ AfterFirstPass
  \/ RetryBegin
  \/ \E j \in 1..Len(ItemRows), reply \in RepliesBal :
       completed(j) /\ RetryResult(j, reply)
  \/ RetryEnd
  \/ FinalUpdate
  \/ MarkInitialDataLoaded

SpecPool == InitPool /\ [][NextPool]_vars

(***************************************************************************)
(* The run against an upstream whose order lists mix the orders that are   *)
(* kept with those that are not                                            *)
(***************************************************************************)
\* An order list with every kind of order, not in order of platinum, and
\* one with no order that is kept.
MixedOrders ==
  << CHOOSE o \in OrderPool : o.platinum = 1,
     CHOOSE o \in OrderPool : o.user.status = "offline",
     CHOOSE o \in OrderPool : o.platinum = 2,
     CHOOSE o \in OrderPool : o.order_type = "sell" >>

NoKeptOrders ==
  << CHOOSE o \in OrderPool : o.order_type = "sell",
     CHOOSE o \in OrderPool : o.user.status = "offline" >>

RepliesOrders ==
  { [kind |-> "http", status |-> 429, orders |-> <<>>],
    [kind |-> "http", status |-> 500, orders |-> <<>>],
    [kind |-> "http", status |-> 200, orders |-> MixedOrders],
    [kind |-> "http", status |-> 200, orders |-> NoKeptOrders],
    [kind |-> "bad_body", status |-> 200, orders |-> <<>>] }

NextOrders ==
  \/ Start
  \/ RunBegin
  \/ \E i \in 1..MaxItems, reply \in RepliesOrders : FirstPassResult(i, reply)
  \/ BatchPublish
  \/ AfterFirstPass
  \/ RetryBegin
  \/ \E j \in 1..MaxItems, reply \in RepliesOrders : RetryResult(j, reply)
  \/ RetryEnd
  \/ FinalUpdate
  \/ MarkInitialDataLoaded

SpecOrders == Init /\ [][NextOrders]_vars

(***************************************************************************)
(* A long run: a table of up to MaxTotal items, fetched against an         *)
(* upstream that answers in the order asked and, once it has failed, goes  *)
(* on failing                                                              *)
(***************************************************************************)
ManyItems ==
  [k \in 1..MaxTotal |->
     [id |-> k, name |-> ToString(k), source |-> NoneValue,
      category |-> "mods", quantity |-> 1, price |-> 0]]

\* HTTP 200 with an empty order list, or HTTP 500.
RepliesMany ==
  { [kind |-> "http", status |-> 200, orders |-> <<>>],
    [kind |-> "http", status |-> 500, orders |-> <<>>] }

\* The future as_completed yields next: the earliest submitted.
next_completed ==
  IF pending = {} THEN 0
  ELSE CHOOSE i \in pending : \A h \in pending : i <= h

InitMany ==
  /\ InitRL
  /\ InitIdle
  /\ item_table \in { SubSeq(ManyItems, 1, n) : n \in 1..MaxTotal }
  /\ fn_input = NoCall
  /\ fn_output = NoCall

NextMany ==
  \/ Start
  \/ RunBegin
  \/ \E reply \in RepliesMany :
       /\ reply.status = 200 => failed_items = <<>>
       /\ FirstPassResult(next_completed, reply)
  \/ BatchPublish
  \/ AfterFirstPass
  \/ FinalUpdate
  \/ MarkInitialDataLoaded

SpecMany == InitMany /\ [][NextMany]_vars

(***************************************************************************)
(* The pure functions, each called once on an input drawn by InitPure      *)
(***************************************************************************)
\* Items as is_item_affordable reads them: a source and a price.
AffordItems ==
  { [source |-> src, price |-> p] :
      src \in {NoneValue} \cup Strings({"r", "R", " "}, MaxSourceLen),
      p \in 0..2 }

\* Balance maps: any keys, as the rows of the SourceBalance table give them.
BalanceMaps ==
  UNION { [keys -> 0..1] : keys \in SUBSET {<<"r">>, <<"R">>, <<"r", "r">>} }

ItemNames == Strings({"a", "A", " ", "_", "-", "1"}, MaxNameLen)

PureInputs ==
  { [fn |-> "is_item_affordable", item |-> it, balances |-> b] :
      it \in AffordItems, b \in BalanceMaps }
  \cup { [fn |-> "clean_item_name", name |-> x] : x \in ItemNames }
  \cup { [fn |-> "fetch_item_orders", item_name |-> ItemRows[1].name,
          reply |-> r] : r \in Replies }

CallIsItemAffordable ==
  /\ fn_input.fn = "is_item_affordable"
  /\ fn_output = NoCall
  /\ fn_output' = [fn |-> fn_input.fn,
                    value |-> is_item_affordable(fn_input.item,
                                                 fn_input.balances)]
  /\ UNCHANGED <<rlVars, webVars, runVars, ghostVars, source_table, fn_input,
               poolVars>>

CallCleanItemName ==
  /\ fn_input.fn = "clean_item_name"
  /\ fn_output = NoCall
  /\ fn_output' = [fn |-> fn_input.fn,
                    value |-> clean_item_name(fn_input.name)]
  /\ UNCHANGED <<rlVars, webVars, runVars, ghostVars, source_table, fn_input,
               poolVars>>

CallFetchItemOrders ==
  /\ fn_input.fn = "fetch_item_orders"
  /\ fn_output = NoCall
  /\ fn_output' = [fn |-> fn_input.fn,
                    value |-> fetch_item_orders(fn_input.item_name,
                                                fn_input.reply)]
  /\ UNCHANGED <<rlVars, webVars, runVars, ghostVars, source_table, fn_input,
               poolVars>>

InitPure ==
  /\ InitRL
  /\ InitIdle
  /\ item_table = <<>>
  /\ fn_input \in PureInputs
  /\ fn_output = NoCall

NextPure ==
  \/ CallIsItemAffordable
  \/ CallCleanItemName
  \/ CallFetchItemOrders

SpecPure == InitPure /\ [][NextPure]_vars


(***************************************************************************)
(* Properties                                                              *)
(***************************************************************************)
Range(f) == { f[x] : x \in DOMAIN f }

HasRecord(s) == progress_key(s) \in DOMAIN cache
Record(s) == cache[progress_key(s)]
IsComplete(s) == HasRecord(s) /\ Record(s).status = Str("complete")

\* Number of recorded timestamps in the trailing window (t - time_window, t].
InWindow(t) ==
  Cardinality({ k \in DOMAIN recorded :
                  recorded[k] > t - time_window /\ recorded[k] <= t })

\* C1 (SpecRL): whatever the interleaving of the workers' wait_if_needed
\* calls, at most max_requests recorded timestamps lie in any trailing
\* window (t - time_window, t].
C1_WindowCap == \A t \in 0..MaxTime : InWindow(t) <= max_requests

\* More calls than the cap were recorded, and the newest timestamp is exactly
\* one window later than the one max_requests calls before it: the caller
\* found the window full and waited.
C1_Witness ==
  /\ Len(recorded) > max_requests
  /\ recorded[Len(recorded)]
       = recorded[Len(recorded) - max_requests] + time_window

Succeeded(i) == "success" \in Range(folded[i])
FailedEntries(rec, name) ==
  Cardinality({ k \in DOMAIN rec.failed_items :
                  rec.failed_items[k].item = name })

\* C2: in a complete record every item of the input is either folded as a
\* success or has exactly one entry in failed_items, never both, never
\* neither.
C2_Partition ==
  \A s \in SessionIds :
    IsComplete(s) =>
      \A i \in 1..Len(items) :
        \/ Succeeded(i) /\ FailedEntries(Record(s), items[i].name) = 0
        \/ ~Succeeded(i) /\ FailedEntries(Record(s), items[i].name) = 1

\* An item rate-limited in the first pass and in every retry pass.
Exhausted(i) ==
  /\ Len(folded[i]) = 1 + max_retry_attempts
  /\ Range(folded[i]) = {"rate_limited"}

\* C3: in a complete record an item that was rate-limited in the first pass
\* and in every retry pass up to the bound has an entry in failed_items.
C3_ExhaustedIsFailed ==
  \A s \in SessionIds :
    IsComplete(s) =>
      \A i \in 1..Len(items) :
        Exhausted(i) => FailedEntries(Record(s), items[i].name) >= 1

C5_CompleteIsTerminal ==
  [][\A s \in SessionIds :
       (IsComplete(s) \/ (s = sid /\ pc \in {"mark_loaded", "done"}))
         => (HasRecord(s)' => HasRecord(s) /\ Record(s)' = Record(s))]_vars

\* The thread has ended and the complete record is still in the store.
C5_Witness == pc = "done" /\ IsComplete(sid)

\* C6 as claimed: the complete record has progress 100.
C6_FinalProgress100 ==
  \A s \in SessionIds : IsComplete(s) => Record(s).progress = 100

\* C6 as amended: the complete record has progress 100 exactly when every
\* item of the input was folded as a success.
C6_FinalProgress100IffAllSucceeded ==
  \A s \in SessionIds :
    IsComplete(s) =>
      (Record(s).progress = 100 <=> \A i \in 1..Len(items) : Succeeded(i))

\* A complete record of a run with a failure, and one of a run without.
C6_Witness ==
  /\ IsComplete(sid)
  /\ Record(sid).failed_items # <<>>
  /\ Record(sid).progress < 100

\* C7: the complete record has processed_items equal to total_items, the
\* length of the input.
C7_FinalProcessedAll ==
  \A s \in SessionIds :
    IsComplete(s) =>
      /\ Record(s).processed_items = Record(s).total_items
      /\ Record(s).total_items = Len(items)

\* A complete record of a run that went through a retry pass.
C7_Witness == IsComplete(sid) /\ retry_attempt >= 1 /\ Len(items) >= 2

IsSortedDesc(rows) ==
  \A k \in 1..(Len(rows) - 1) : rows[k].platinum >= rows[k + 1].platinum
Platinums(rows) == [k \in 1..Len(rows) |-> rows[k].platinum]

RecordKeys ==
  {"status", "market_data", "failed_items", "total_orders", "total_failed",
   "progress", "processed_items", "total_items"}

\* C9: a progress poll for a session id never created, or whose record the
\* store dropped, is answered 404; a poll answered with a record gets a
\* whole progress record, never a partial or default one.
C9_PollNotFoundOrWhole ==
  \A s \in SessionIds :
    LET r == progress_response(cache, s)
    IN  /\ s \notin sessions => r.code = 404
        /\ r.code = 200 => RecordKeys \subseteq DOMAIN r.body

FiveStatuses ==
  {Str("starting"), Str("fetching"), Str("retrying"), Str("completing"),
   Str("complete")}

Called(fn) == fn_output # NoCall /\ fn_output.fn = fn

\* The part of s from its first to its last character that is not
\* whitespace.
Trimmed(s) ==
  LET inner == { k \in 1..Len(s) : s[k] \notin Whitespace }
  IN  IF inner = {} THEN <<>>
      ELSE SubSeq(s, CHOOSE k \in inner : \A j \in inner : k <= j,
                     CHOOSE k \in inner : \A j \in inner : k >= j)

\* key is name with its surrounding whitespace dropped and its letters in
\* lower case.
IsNormalOf(key, name) ==
  /\ Len(key) = Len(Trimmed(name))
  /\ \A k \in 1..Len(key) : key[k] = lower_char(Trimmed(name)[k])

\* The balance the map holds for the source as normalised, 0 without entry.
BalanceFor(source, balances) ==
  IF \E key \in DOMAIN balances : IsNormalOf(key, source)
  THEN balances[CHOOSE key \in DOMAIN balances : IsNormalOf(key, source)]
  ELSE 0

\* C11 (SpecPure): for every item and balance map, is_item_affordable is
\* true when the item's source is absent or empty (nothing but whitespace),
\* and otherwise is exactly price <= the balance of the item's source, as
\* normalised, in the map, 0 when the map has no entry for it.
C11_Affordable ==
  Called("is_item_affordable") =>
    LET item == fn_input.item
    IN  fn_output.value =
          IF item.source = NoneValue \/ Trimmed(item.source) = <<>>
          THEN TRUE
          ELSE item.price <= BalanceFor(item.source, fn_input.balances)

\* A source written in upper case and followed by a space is priced against
\* the entry of its lower-case name, and the price equals the balance.
C11_Witness ==
  /\ Called("is_item_affordable")
  /\ fn_input.item.source = <<"R", " ">>
  /\ fn_input.item.price = 1
  /\ <<"r">> \in DOMAIN fn_input.balances
  /\ fn_input.balances[<<"r">>] = 1
  /\ fn_output.value = TRUE

\* C12 (SpecPure): clean_item_name is idempotent, and its output has only
\* characters of [a-z0-9_], no underscore first or last, and no two
\* underscores in a row.
C12_CleanIdempotent ==
  Called("clean_item_name") =>
    LET out == fn_output.value
    IN  /\ clean_item_name(out) = out
        /\ \A k \in 1..Len(out) :
              \/ \E j \in DOMAIN LowerCase : out[k] = LowerCase[j]
              \/ out[k] \in Digits
              \/ out[k] = "_"
        /\ out # <<>> => out[1] # "_" /\ out[Len(out)] # "_"
        /\ \A k \in 1..(Len(out) - 1) : ~(out[k] = "_" /\ out[k + 1] = "_")

\* A name whose cleaning lower-cases a letter, drops a character and joins
\* a space and an underscore into one underscore.
C12_Witness ==
  /\ Called("clean_item_name")
  /\ fn_input.name = <<"A", " ", "_", "1">>
  /\ fn_output.value = <<"a", "_", "1">>

\* C13 (SpecPure): fetch_item_orders returns, for a transport failure,
\* failed with the transport error; for HTTP 429, rate_limited with no
\* error; for any other status but 200, failed with "HTTP {status}"; for
\* HTTP 200, success; and it never raises to its caller.
C13_Classification ==
  Called("fetch_item_orders") =>
    LET reply == fn_input.reply
        out == fn_output.value
    IN  /\ ~out.raised
        /\ IF reply.kind = "transport_error"
           THEN /\ out.value.status = "failed"
                /\ out.value.error = Str("ConnectionError")
           ELSE IF reply.status = 429
           THEN /\ out.value.status = "rate_limited"
                /\ "error" \notin DOMAIN out.value
           ELSE IF reply.status # 200
           THEN /\ out.value.status = "failed"
                /\ out.value.error = <<"HTTP ", reply.status>>
           ELSE out.value.status = "success"

\* C14 as claimed: every start request returns a new session id, has
\* stored that session's record with status starting when it returns, and
\* has begun exactly one background run for it.
C14_StartCreatesSession ==
  [][response' # response =>
       LET s == response'.session_id
       IN  /\ s \in SessionIds
           /\ s \notin sessions
           /\ s \in sessions'
           /\ progress_key(s) \in DOMAIN cache'
           /\ cache'[progress_key(s)].status = Str("starting")
           /\ threads' = [threads EXCEPT ![s] = 1]
           /\ pc' = "spawned" /\ sid' = s /\ items' = item_table]_vars

\* C14 as amended: a start request for a non-empty Item table does all of
\* that; one for an empty table answers with a complete, empty result,
\* returns no session id, stores no record and begins no run.
C14_StartNonEmpty ==
  [][response' # response =>
       LET s == response'.session_id
       IN  IF item_table # <<>>
           THEN /\ s \in SessionIds
                /\ s \notin sessions
                /\ s \in sessions'
                /\ progress_key(s) \in DOMAIN cache'
                /\ cache'[progress_key(s)].status = Str("starting")
                /\ cache'[progress_key(s)].total_items = Len(item_table)
                /\ threads' = [threads EXCEPT ![s] = 1]
                /\ pc' = "spawned" /\ sid' = s /\ items' = item_table
           ELSE /\ s = NoSessionId
                /\ response'.body.status = Str("complete")
                /\ response'.body.progress = 100
                /\ response'.body.market_data = <<>>
                /\ UNCHANGED <<sessions, cache, threads, pc, sid, items>>]_vars

\* A start request for a table of two items has just returned.
C14_Witness ==
  /\ response.handler = "start"
  /\ response.session_id \in sessions
  /\ pc = "spawned"
  /\ Len(items) >= 2
  /\ IsComplete(sid) = FALSE /\ HasRecord(sid)

\* C15: from one record written for the session to the next, none of
\* progress, processed_items, successful_items, the number of rows of
\* market_data and the number of entries of failed_items decreases.
C15_NeverDecreases ==
  [][/\ last_written'.progress >= last_written.progress
     /\ last_written'.processed_items >= last_written.processed_items
     /\ last_written'.successful_items >= last_written.successful_items
     /\ last_written'.market_rows >= last_written.market_rows
     /\ last_written'.failed_entries >= last_written.failed_entries]_vars

\* C16: a record with status complete was preceded, in the same run, by a
\* record with status completing.
C16_CompletingBeforeComplete ==
  \A s \in SessionIds :
    (s = sid /\ IsComplete(s)) => Str("completing") \in statuses_written

\* Item i was fetched in pass p (0 the first pass, k the k-th retry pass)
\* and that fetch returned rate_limited.
RateLimitedIn(i, p) ==
  Len(folded[i]) >= p + 1 /\ folded[i][p + 1] = "rate_limited"

\* The pass that filled retry_queue: the one before the pass about to begin
\* or under way.
PrecedingPass == IF pc = "retry_begin" THEN retry_attempt ELSE retry_attempt - 1

LocalFailedEntries(name) ==
  { k \in DOMAIN failed_items : failed_items[k].item = name }

\* C17: the batch of a retry pass is exactly the items whose fetch returned
\* rate_limited in the pass before it, each once; an item whose fetch
\* returned success or failed, or raised, is not fetched again; and such a
\* failed item has its entry, with the reason, in failed_items from the
\* step that folded it.
C17_RetryBatch ==
  /\ pc \in {"retry_begin", "retry_pass", "retry_end"} =>
       /\ Range(retry_queue)
            = { items[i].name : i \in { j \in 1..Len(items) :
                                          RateLimitedIn(j, PrecedingPass) } }
       /\ \A a, b \in DOMAIN retry_queue :
             a # b => retry_queue[a] # retry_queue[b]
  /\ \A i \in DOMAIN folded :
       /\ \A k \in 1..(Len(folded[i]) - 1) : folded[i][k] = "rate_limited"
       /\ IF \E k \in DOMAIN folded[i] : folded[i][k] \in {"failed", "raised"}
          THEN /\ Cardinality(LocalFailedEntries(items[i].name)) = 1
               /\ \A k \in LocalFailedEntries(items[i].name) :
                     failed_items[k].error
                       \in {Str("ConnectionError"), <<"HTTP ", 500>>,
                            Str("AttributeError")}
          ELSE LocalFailedEntries(items[i].name) = {}

\* In the second retry pass of two items, one has failed in the first
\* retry pass and the other is being fetched for the third time.
C17_Witness ==
  /\ pc = "retry_pass"
  /\ retry_attempt = 2
  /\ Len(retry_queue) = 1
  /\ \E i, j \in DOMAIN folded :
       /\ folded[i] = <<"rate_limited", "failed">>
       /\ folded[j] = <<"rate_limited", "rate_limited">>
       /\ retry_queue[1] = items[j].name

\* C18: a run makes at most max_retry_attempts retry passes, numbered
\* 1, 2, ... in steps of one; a retry pass begins or is under way only with
\* a non-empty retry queue; no item is fetched more than
\* 1 + max_retry_attempts times; and the loop ends when a pass leaves
\* nothing to retry.
C18_BoundedRetries ==
  [][/\ retry_attempt' <= max_retry_attempts
     /\ \A i \in DOMAIN folded' :
          Len(folded'[i]) <= 1 + max_retry_attempts
     /\ pc' \in {"retry_begin", "retry_pass"} => retry_queue' # <<>>
     /\ (pc = "retry_begin" /\ pc' = "retry_pass") =>
          /\ retry_attempt' = retry_attempt + 1
          /\ cache'[progress_key(sid)].status = status_attempt(retry_attempt')
     /\ (pc # "retry_begin" \/ pc' # "retry_pass") =>
          retry_attempt' \in {retry_attempt, 0}
     /\ (pc = "retry_end" /\ pc' # "retry_end" /\ next_retry_queue = <<>>) =>
          pc' = "final"]_vars

\* The loop has ended on the bound with an item still rate-limited, after
\* 1 + max_retry_attempts fetches of it.
C18_Witness ==
  /\ pc = "final"
  /\ retry_attempt = max_retry_attempts
  /\ retry_queue # <<>>
  /\ \E i \in DOMAIN folded : Len(folded[i]) = 1 + max_retry_attempts

\* What the affordability of item is under the balance map.
AffordableUnder(item, balances) ==
  IF item.source = NoneValue \/ Trimmed(item.source) = <<>>
  THEN TRUE
  ELSE item.price <= BalanceFor(item.source, balances)

ItemOfRow(row) == items[CHOOSE i \in DOMAIN items : items[i].id = row.item_id]

\* Every row the run holds or has published.
RowsOfRun ==
  Range(market_data)
  \cup UNION { Range(dict_get(Record(s), "market_data", <<>>)) :
                 s \in { t \in SessionIds : HasRecord(t) } }

\* C19 (SpecBal): from the step that reads the balances until the run ends
\* the run's balance map does not change, whatever is added to, edited in
\* or deleted from the SourceBalance table meanwhile; every row the run
\* holds or has published carries the affordability of its item under that
\* map; and two rows of one item carry the same value.
C19_SnapshotAffordability ==
  [][/\ pc \notin {"idle", "spawned"} => source_balances' = source_balances
     /\ (pc = "spawned" /\ pc' # "spawned") => source_balances' = source_table
     /\ \A row \in RowsOfRun' :
          row.is_affordable = AffordableUnder(ItemOfRow(row)', source_balances')
     /\ \A r1, r2 \in RowsOfRun' :
          r1.item_id = r2.item_id => r1.is_affordable = r2.is_affordable]_vars

\* During a retry pass the run holds two rows of one item that are flagged
\* not affordable although the table, edited since the run began, now
\* covers the item's price.
C19_Witness ==
  /\ pc = "retry_pass"
  /\ source_table # source_balances
  /\ \E a, b \in DOMAIN market_data :
       /\ a # b
       /\ market_data[a].item_id = market_data[b].item_id
       /\ ~market_data[a].is_affordable
       /\ is_item_affordable(ItemOfRow(market_data[a]), source_table)

\* C20 (FairSpecRL): every worker that calls wait_if_needed returns from
\* it, however many workers call; and a worker that finds the window full
\* sleeps until the oldest timestamp held is time_window old.
C20_EveryCallerReturns ==
  /\ \A w \in Workers :
       (worker[w].pc = "blocked") ~> (worker[w].pc = "idle")
  /\ [][\A w \in Workers :
          (worker[w].pc = "locked" /\ worker'[w].pc = "sleeping") =>
            /\ Len(requests) >= max_requests
            /\ worker'[w].wake = requests[1] + time_window]_vars

\* One worker sleeps on a full window, holding the lock, while another
\* waits for the lock.
C20_Witness ==
  \E w1, w2 \in Workers :
    /\ worker[w1].pc = "sleeping"
    /\ lock = w1
    /\ worker[w1].wake > clock
    /\ worker[w2].pc = "blocked"

\* A worker is in the critical section of wait_if_needed from the first
\* eviction to the append of its timestamp, its sleep included.
InCritical(w) == worker[w].pc \in {"locked", "sleeping"}

\* C21 (SpecRL): at most one worker at a time is between the first eviction
\* and the append of its timestamp in wait_if_needed, a sleeping worker
\* included, and that worker holds the lock; the timestamps recorded are in
\* non-decreasing order.
C21_MutualExclusion ==
  /\ \A w1, w2 \in Workers : InCritical(w1) /\ InCritical(w2) => w1 = w2
  /\ \A w \in Workers : InCritical(w) <=> lock = w
  /\ \A k \in 1..(Len(recorded) - 1) : recorded[k] <= recorded[k + 1]

\* Timestamps of different times were recorded, and one worker is in the
\* critical section while every other worker waits for the lock.
C21_Witness ==
  /\ Len(recorded) >= 2
  /\ recorded[1] < recorded[Len(recorded)]
  /\ \E w \in Workers :
       /\ InCritical(w)
       /\ \A v \in Workers \ {w} : worker[v].pc = "blocked"

\* The fields update_progress_only writes, and the fields only a full
\* publish or start writes.
CounterFields ==
  {"status", "progress", "processed_items", "successful_items", "total_items"}
TableFields == {"market_data", "failed_items", "total_orders", "total_failed"}

\* The step holds a progress-only publish: a fetch folded as a success in
\* either pass.
ProgressOnlyStep ==
  /\ pc \in {"first_pass", "retry_pass"}
  /\ successful_items' = successful_items + 1

\* C22: a progress-only publish changes only status, progress,
\* processed_items, successful_items and total_items of the stored record;
\* the record it stores has market_data, failed_items, total_orders and
\* total_failed exactly as they were stored before it.
C22_ProgressOnlyFrame ==
  [][ProgressOnlyStep =>
       LET k == progress_key(sid) IN
       /\ k \in DOMAIN cache'
       /\ k \in DOMAIN cache
       /\ DOMAIN cache'[k] \ CounterFields = DOMAIN cache[k] \ CounterFields
       /\ \A f \in TableFields :
            /\ f \in DOMAIN cache[k]
            /\ f \in DOMAIN cache'[k]
            /\ cache'[k][f] = cache[k][f]]_vars

\* C23 (SpecPool): in a retry pass the number of fetch_item_orders calls
\* running at once is bounded by the width of the retry pool, and that pool
\* is narrower than the first pass's: fewer calls run at once than the
\* first pool is wide.
C23_RetryPoolNarrower ==
  in_retry_pass =>
    /\ Cardinality(running) <= retry_max_workers
    /\ Cardinality(running) < max_workers

\* The orders of a reply that are buy orders of a user who is in game.
KeptOrders(reply) ==
  { o \in Range(reply.orders) :
      o.order_type = "buy" /\ o.user.status = "ingame" }

\* Row is the row of order o for the item named name.
RowOf(row, name, o) ==
  /\ row.item = name
  /\ row.buyer = o.user.ingame_name
  /\ row.platinum = o.platinum
  /\ row.user_status = o.user.status

\* The step folded the reply as a success of item idx, named name: the rows
\* it added to market_data are one for each kept order of the reply and no
\* other, highest platinum first, and nothing was added to failed_items.
RowsAddedFor(name, idx, reply) ==
  LET n == Len(market_data)
      added == SubSeq(market_data', n + 1, Len(market_data'))
  IN  /\ Len(market_data') >= n
      /\ SubSeq(market_data', 1, n) = market_data
      /\ \A o \in KeptOrders(reply) :
           Cardinality({ k \in DOMAIN added : RowOf(added[k], name, o) }) = 1
      /\ \A k \in DOMAIN added :
           \E o \in KeptOrders(reply) : RowOf(added[k], name, o)
      /\ IsSortedDesc(added)
      /\ successful_items' = successful_items + 1
      /\ failed_items' = failed_items
      /\ folded'[idx][Len(folded'[idx])] = "success"

\* C24 (SpecOrders): when the fetch of an item returns HTTP 200, the rows
\* added to market_data for the item are exactly one row per order of the
\* reply that is a buy order of a user in game, highest platinum first, and
\* no row for any other order; the item counts as a success, with zero rows
\* when no order is kept, and gets no entry in failed_items.
C24_RowsOfKeptOrders ==
  [][\A i \in 1..MaxItems, reply \in RepliesOrders :
       /\ (reply.status = 200 /\ FirstPassResult(i, reply)) =>
            RowsAddedFor(items[i].name, i, reply)
       /\ (reply.status = 200 /\ RetryResult(i, reply)) =>
            RowsAddedFor(retry_queue[i], find_item(retry_queue[i]), reply)]_vars

\* C25: every record stored for a session has total_orders equal to the
\* number of rows of its market_data and total_failed equal to the number of
\* entries of its failed_items.
C25_TotalsMatchLists ==
  \A s \in SessionIds :
    HasRecord(s) =>
      /\ TableFields \subseteq DOMAIN Record(s)
      /\ Record(s).total_orders = Len(Record(s).market_data)
      /\ Record(s).total_failed = Len(Record(s).failed_items)

\* Number of fetches of item i that were folded as a success.
Successes(i) ==
  Cardinality({ k \in DOMAIN folded[i] : folded[i][k] = "success" })

\* C26 (SpecMany): in every record the run has written, progress is
\* floor(100 * successful_items / total_items) and successful_items <=
\* processed_items <= total_items, where successful_items counts each item
\* whose fetch succeeded once; so progress is within 0..100 and is 100 only
\* when the fetch of every item succeeded.
C26_ProgressIsFloor ==
  \A s \in SessionIds :
    (s = sid /\ HasRecord(s) /\ Record(s).status # Str("starting")) =>
      LET rec == Record(s) IN
      /\ rec.progress = (100 * rec.successful_items) \div rec.total_items
      /\ rec.successful_items <= rec.processed_items
      /\ rec.processed_items <= rec.total_items
      /\ \A i \in 1..Len(items) : Successes(i) <= 1
      /\ rec.successful_items
           = Cardinality({ i \in 1..Len(items) : Succeeded(i) })
      /\ rec.progress \in 0..100
      /\ rec.progress = 100 => \A i \in 1..Len(items) : Succeeded(i)

====
